---- MODULE Spec2Model ----
(***************************************************************************)
(* The pattern-matching and patch-application engine of the DBFZ raid      *)
(* enabler: BinaryPatcher (src/src/core/patcher.py) and the detection scan *)
(* of BackupManager (src/src/file_manager/backup.py).                      *)
(*                                                                         *)
(* A byte is an integer 0..255, a byte string a sequence of bytes.  A      *)
(* Python str is a sequence of one-character strings.  Offsets are 0-based *)
(* as in the code; sequences are 1-based, so offset i is index i + 1.      *)
(***************************************************************************)
EXTENDS Integers, Sequences, FiniteSets, TLC

VARIABLES
    disk,        \* contents of the file at exe_path
    ret,         \* outcome of the most recent call
    log,         \* what the most recent call handed to the logger, in order
    call,        \* frame of a direct replace_pattern call (specification SpecScan)
    patch_set,   \* the patch set the most recent patch_executable call generated
    clean_exe,   \* the file at paths['clean_exe'] (specification SpecFlow)
    patched_exe, \* the file at paths['patched_exe'] (specification SpecFlow)
    shortcuts,   \* the "DBFZ Raid *.lnk" files in the game root (specification SpecFlow)
    selection    \* where show_raid_menu stands in the current run (specification SpecFlow)

vars == <<disk, ret, log, call, patch_set, clean_exe, patched_exe, shortcuts, selection>>

\* the files of the game installation
install == <<clean_exe, patched_exe, shortcuts>>

(***************************************************************************)
(* Bounds of the model.                                                    *)
(***************************************************************************)
\* number of blocks an initial file is made of
MaxSegs == 2
\* longest buffer, pattern (in elements) and replacement of SpecScan
MaxBuf == 4
MaxPat == 3
MaxRep == 3

(***************************************************************************)
(* Python values.                                                          *)
(***************************************************************************)
\* the None of Optional[int]; every int detect_current_patch returns is in 1..38
None == -1
\* replace_pattern's "not found" return value
NOT_FOUND == -1

Min(a, b) == IF a <= b THEN a ELSE b

(***************************************************************************)
(* A Python int is unbounded and the integers of the checker end at        *)
(* 2^31 - 1, so an int that may need 32 bits or more (a raid index, a      *)
(* decoded window) is kept as two limbs: [hi, lo] is hi * 65536 + lo with  *)
(* lo in 0..65535; hi < 0 for a negative int.                              *)
(***************************************************************************)
PyInt(v) == [hi |-> v \div 65536, lo |-> v % 65536]

\* a <= b on ints
Leq(a, b) == a.hi < b.hi \/ (a.hi = b.hi /\ a.lo <= b.lo)

\* an int known to lie in 0..65535, as a number of the checker
Small(a) == a.lo

\* a serialisation that accepts the valid range 1..38 only
FitsIn4Bytes_valid_range(n) == n.hi = 0 /\ n.lo >= 1 /\ n.lo <= 38

\* int.to_bytes(4, byteorder='little') accepts exactly 0 .. 2^32 - 1 and
\* raises OverflowError on every other int
FitsIn4Bytes(n) == n.hi >= 0 /\ n.hi < 65536

\* to_bytes with byteorder='big'
to_bytes_big(n) ==
    << n.hi \div 256, n.hi % 256, n.lo \div 256, n.lo % 256 >>

\* raid_index.to_bytes(4, byteorder='little') on a value that fits
to_bytes(n) ==
    << n.lo % 256, n.lo \div 256, n.hi % 256, n.hi \div 256 >>

\* from_bytes with byteorder='big'
from_bytes_big(b) == [hi |-> b[2] + 256 * b[1], lo |-> b[4] + 256 * b[3]]

\* int.from_bytes(b, byteorder='little') on 4 bytes
from_bytes(b) == [hi |-> b[3] + 256 * b[4], lo |-> b[1] + 256 * b[2]]

\* value of each hexadecimal digit, as int(s, 16) reads it
HexDigit ==
    [ c \in { "0", "1", "2", "3", "4", "5", "6", "7", "8", "9",
              "A", "B", "C", "D", "E", "F", "a", "b", "c", "d", "e", "f" } |->
        CASE c = "0" -> 0  [] c = "1" -> 1  [] c = "2" -> 2  [] c = "3" -> 3
          [] c = "4" -> 4  [] c = "5" -> 5  [] c = "6" -> 6  [] c = "7" -> 7
          [] c = "8" -> 8  [] c = "9" -> 9
          [] c \in { "A", "a" } -> 10 [] c \in { "B", "b" } -> 11
          [] c \in { "C", "c" } -> 12 [] c \in { "D", "d" } -> 13
          [] c \in { "E", "e" } -> 14 [] c \in { "F", "f" } -> 15 ]

RECURSIVE ParseHexTo(_, _)
\* the value of the first n digits of s
ParseHexTo(s, n) ==
    IF n = 0 THEN 0 ELSE 16 * ParseHexTo(s, n - 1) + HexDigit[s[n]]

\* int(pattern_byte, 16) on a string of hexadecimal digits
ParseHex(s) == ParseHexTo(s, Len(s))

RECURSIVE Split(_)
\* pattern.split(' '): cut at every single space
Split(s) ==
    IF \A k \in 1..Len(s) : s[k] # " " THEN << s >>
    ELSE LET k == CHOOSE k \in 1..Len(s) :
                      s[k] = " " /\ \A m \in 1..(k - 1) : s[m] # " "
         IN  << SubSeq(s, 1, k - 1) >> \o Split(SubSeq(s, k + 1, Len(s)))

\* the wildcard element of a pattern
Wildcard == << "?", "?" >>

(***************************************************************************)
(* BinaryPatcher.replace_pattern                                           *)
(***************************************************************************)
RECURSIVE MatchFrom(_, _, _, _)
\* the inner loop of replace_pattern at offset i, from element j on: found
\* stays True unless a non-wildcard element differs from exe_data[i + j]
MatchFrom(exe_data, pattern_bytes, i, j) ==
    IF j > Len(pattern_bytes) THEN TRUE
    ELSE IF pattern_bytes[j] = Wildcard
         THEN MatchFrom(exe_data, pattern_bytes, i, j + 1)
    ELSE IF ParseHex(pattern_bytes[j]) # exe_data[i + j] THEN FALSE
    ELSE MatchFrom(exe_data, pattern_bytes, i, j + 1)

RECURSIVE ScanFrom_short(_, _, _)
\* the scan over range(len(exe_data) - pattern_len): the last offset is left out
ScanFrom_short(exe_data, pattern_bytes, i) ==
    IF i >= Len(exe_data) - Len(pattern_bytes) THEN NOT_FOUND
    ELSE IF MatchFrom(exe_data, pattern_bytes, i, 1) THEN i
    ELSE ScanFrom_short(exe_data, pattern_bytes, i + 1)

RECURSIVE ScanFrom_last(_, _, _)
\* the scan without "return i" at the first match: the last match wins
ScanFrom_last(exe_data, pattern_bytes, i) ==
    IF i >= Len(exe_data) - Len(pattern_bytes) + 1 THEN NOT_FOUND
    ELSE LET later == ScanFrom_last(exe_data, pattern_bytes, i + 1)
         IN  IF later # NOT_FOUND THEN later
             ELSE IF MatchFrom(exe_data, pattern_bytes, i, 1) THEN i
             ELSE NOT_FOUND

RECURSIVE ScanFrom(_, _, _)
\* the outer loop of replace_pattern: the first i of
\* range(len(exe_data) - pattern_len + 1), from i on, at which found is True
ScanFrom(exe_data, pattern_bytes, i) ==
    IF i >= Len(exe_data) - Len(pattern_bytes) + 1 THEN NOT_FOUND
    ELSE IF MatchFrom(exe_data, pattern_bytes, i, 1) THEN i
    ELSE ScanFrom(exe_data, pattern_bytes, i + 1)

\* exe_data[i:i] = new_bytes: the replacement is inserted, nothing overwritten
SliceAssign_insert(exe_data, i, new_bytes) ==
    SubSeq(exe_data, 1, i) \o new_bytes \o SubSeq(exe_data, i + 1, Len(exe_data))

\* exe_data[i:i + len(new_bytes)] = new_bytes on a bytearray: the slice is
\* clipped to the buffer and replaced by all of new_bytes
SliceAssign(exe_data, i, new_bytes) ==
    SubSeq(exe_data, 1, i) \o new_bytes
        \o SubSeq(exe_data, Min(i + Len(new_bytes), Len(exe_data)) + 1, Len(exe_data))

\* replace_pattern with the write done before the scan has said where: when
\* nothing matches, the replacement lands at the head of the buffer
replace_pattern_stamp(exe_data, pattern, new_bytes) ==
    LET pattern_bytes == Split(pattern)
        i == ScanFrom(exe_data, pattern_bytes, 0)
    IN  IF i # NOT_FOUND
        THEN [offset |-> i, exe_data |-> SliceAssign(exe_data, i, new_bytes),
              raised |-> "none"]
        ELSE [offset |-> NOT_FOUND, exe_data |-> SliceAssign(exe_data, 0, new_bytes),
              raised |-> "none"]

\* replace_pattern(exe_data, pattern, new_bytes): the offset returned, the
\* buffer as the call leaves it, and the exception raised (the function has
\* no raise and no check that can fail on a pattern of hexadecimal elements)
replace_pattern(exe_data, pattern, new_bytes) ==
    LET pattern_bytes == Split(pattern)
        i == ScanFrom(exe_data, pattern_bytes, 0)
    IN  IF i # NOT_FOUND
        THEN [offset |-> i, exe_data |-> SliceAssign(exe_data, i, new_bytes),
              raised |-> "none"]
        ELSE [offset |-> NOT_FOUND, exe_data |-> exe_data, raised |-> "none"]

(***************************************************************************)
(* BinaryPatcher.create_raid_patches                                       *)
(***************************************************************************)
get_pattern == <<"8", "B", " ", "8", "1", " ", "C", "4", " ", "5", "3", " ", "1", "D", " ", "0", "0">>

set_pattern == <<"6", "6", " ", "0", "F", " ", "7", "3", " ", "D", "A", " ", "0", "8", " ", "6", "6", " ", "4", "1", " ", "0", "F", " ", "7", "E", " ", "5", "0", " ", "0", "4", " ", "F", "2", " ", "0", "F", " ", "1", "1", " ", "4", "C">>

status_pattern == <<"8", "3", " ", "7", "8", " ", "1", "0", " ", "0", "2", " ", "7", "4", " ", "1", "0">>

\* the replacement without its closing nop
get_replacement_short(raid_bytes) == << \hB8 >> \o raid_bytes

get_replacement(raid_bytes) == << \hB8 >> \o raid_bytes \o << \h90 >>

\* the replacement with the raid bytes one position early
set_replacement_early(raid_bytes) ==
    << \h41, \hC7, \h40 >> \o raid_bytes \o << \h04, \h90, \h90, \h90 >>

set_replacement(raid_bytes) ==
    << \h41, \hC7, \h40, \h04 >> \o raid_bytes \o << \h90, \h90, \h90 >>

\* a replacement that writes the bytes the get_raid pattern looks for
status_replacement_get_site == << \h8B, \h81, \hC4, \h53, \h1D, \h00 >>

\* a replacement that writes back the bytes the site already holds
status_replacement_identity == << \h83, \h78, \h10, \h02 >>

status_replacement == << \h39, \hC0, \h90, \h90 >>

\* a patch set that remembers the call before: the raid bytes come from the
\* index of the preceding patch_executable call when there was one
create_raid_patches_stateful(raid_index) ==
    LET raid_bytes == to_bytes(IF ret.op = "patch_executable" /\ FitsIn4Bytes(ret.raid_index)
                               THEN ret.raid_index ELSE raid_index)
    IN  << [name |-> "get_raid", pattern |-> get_pattern,
            replacement |-> get_replacement(raid_bytes)],
           [name |-> "set_raid", pattern |-> set_pattern,
            replacement |-> set_replacement(raid_bytes)],
           [name |-> "raid_status", pattern |-> status_pattern,
            replacement |-> status_replacement] >>

\* the dict create_raid_patches returns, in insertion order (the order
\* patches.items() yields); raid_index fits in 4 bytes
create_raid_patches(raid_index) ==
    LET raid_bytes == to_bytes(raid_index)
    IN  << [name |-> "get_raid", pattern |-> get_pattern,
            replacement |-> get_replacement(raid_bytes)],
           [name |-> "set_raid", pattern |-> set_pattern,
            replacement |-> set_replacement(raid_bytes)],
           [name |-> "raid_status", pattern |-> status_pattern,
            replacement |-> status_replacement] >>

(***************************************************************************)
(* BinaryPatcher.patch_executable                                          *)
(***************************************************************************)
\* f"{patch_name} pattern scan failed"
error_msg(patch_name) == << patch_name, " pattern scan failed" >>

\* the loop body without "results['success'] = False"
ApplyPatch_keeps_success(st, patch) ==
    LET r == replace_pattern(st.exe_data, patch.pattern, patch.replacement)
        applying == Append(st.log, << "Applying", patch.name >>)
    IN  IF r.offset < 0
        THEN [exe_data |-> r.exe_data,
              results  |-> [success |-> st.results.success,
                            offsets |-> st.results.offsets,
                            errors  |-> Append(st.results.errors, error_msg(patch.name))],
              log      |-> Append(applying, << "error", error_msg(patch.name) >>)]
        ELSE [exe_data |-> r.exe_data,
              results  |-> [success |-> st.results.success,
                            offsets |-> (patch.name :> r.offset) @@ st.results.offsets,
                            errors  |-> st.results.errors],
              log      |-> Append(applying, << "applied", patch.name, r.offset >>)]

\* one iteration of the loop over patches.items(): st is the loop state
\* [exe_data, results, log]
ApplyPatch(st, patch) ==
    LET r == replace_pattern(st.exe_data, patch.pattern, patch.replacement)
        applying == Append(st.log, << "Applying", patch.name >>)
    IN  IF r.offset < 0
        THEN [exe_data |-> r.exe_data,
              results  |-> [success |-> FALSE,
                            offsets |-> st.results.offsets,
                            errors  |-> Append(st.results.errors, error_msg(patch.name))],
              log      |-> Append(applying, << "error", error_msg(patch.name) >>)]
        ELSE [exe_data |-> r.exe_data,
              results  |-> [success |-> st.results.success,
                            offsets |-> (patch.name :> r.offset) @@ st.results.offsets,
                            errors  |-> st.results.errors],
              log      |-> Append(applying, << "applied", patch.name, r.offset >>)]

RECURSIVE ApplyPatches_break(_, _, _)
\* the loop with a break after the first patch that does not match
ApplyPatches_break(st, patches, k) ==
    IF k > Len(patches) \/ ~st.results.success THEN st
    ELSE ApplyPatches_break(ApplyPatch(st, patches[k]), patches, k + 1)

RECURSIVE ApplyPatches(_, _, _)
\* the loop "for patch_name, (pattern, replacement) in patches.items()",
\* from the k-th patch on
ApplyPatches(st, patches, k) ==
    IF k > Len(patches) THEN st
    ELSE ApplyPatches(ApplyPatch(st, patches[k]), patches, k + 1)

\* outcomes of exe_path.write_bytes(exe_data), which opens the file for
\* writing (truncating it) and then writes: it completes ("ok"), or open()
\* raises with the file untouched ("open"), or it raises after the first n
\* bytes reached the file ("torn")
WriteOutcomes == { "ok", "open", "torn" }

\* the file write_bytes leaves behind
write_bytes(old, exe_data, w, n) ==
    IF w = "ok" THEN exe_data
    ELSE IF w = "open" THEN old
    ELSE SubSeq(exe_data, 1, n)

\* the read with its failure swallowed: the error is logged and the call
\* goes on with an empty buffer
read_and_patch_swallow(file, raid_index, readable) ==
    LET start == << << "Starting patch process", raid_index >> >>
        begun == IF readable THEN start
                 ELSE Append(start, << "error", "Failed to read executable" >>)
    IN  IF ~FitsIn4Bytes(raid_index)
        THEN [raised |-> "OverflowError", exe_data |-> file, results |-> None,
              log |-> begun, patches |-> << >>]
        ELSE LET st0 == [exe_data |-> IF readable THEN file ELSE << >>,
                         results  |-> [success |-> TRUE, offsets |-> << >>,
                                       errors |-> << >>],
                         log      |-> begun]
                 made == create_raid_patches(raid_index)
                 st == ApplyPatches(st0, made, 1)
             IN  [raised |-> "none", exe_data |-> st.exe_data,
                  results |-> st.results, log |-> st.log, patches |-> made]

\* patch_executable up to the end of the loop: the read, create_raid_patches
\* (its dict is kept in patches) and the three patches applied to the buffer
\* in memory.  readable says
\* whether read_bytes succeeds.  to_bytes raises OverflowError in
\* create_raid_patches when raid_index does not fit in 4 bytes.
read_and_patch(file, raid_index, readable) ==
    LET start == << << "Starting patch process", raid_index >> >>
    IN  IF ~readable
        THEN [raised |-> "PatchError", exe_data |-> << >>, results |-> None,
              log |-> Append(start, << "error", "Failed to read executable" >>),
              patches |-> << >>]
        ELSE IF ~FitsIn4Bytes(raid_index)
        THEN [raised |-> "OverflowError", exe_data |-> file, results |-> None,
              log |-> start, patches |-> << >>]
        ELSE LET st0 == [exe_data |-> file,
                         results  |-> [success |-> TRUE, offsets |-> << >>,
                                       errors |-> << >>],
                         log      |-> start]
                 made == create_raid_patches(raid_index)
                 st == ApplyPatches(st0, made, 1)
             IN  [raised |-> "none", exe_data |-> st.exe_data,
                  results |-> st.results, log |-> st.log, patches |-> made]

\* whether patch_executable, having come to m, calls write_bytes
Writes(m) == m.raised = "none" /\ m.results.success

\* persist without the "if results['success']" test: the buffer is written
\* back whether or not every patch matched
persist_unconditional(file, raid_index, m, w, n) ==
    IF m.raised # "none"
    THEN [disk |-> file,
          ret  |-> [op |-> "patch_executable", raid_index |-> raid_index,
                    raised |-> m.raised, value |-> None],
          log  |-> m.log]
    ELSE IF w = "ok"
    THEN [disk |-> write_bytes(file, m.exe_data, w, n),
          ret  |-> [op |-> "patch_executable", raid_index |-> raid_index,
                    raised |-> "none", value |-> m.results],
          log  |-> Append(m.log, << "written" >>)]
    ELSE [disk |-> write_bytes(file, m.exe_data, w, n),
          ret  |-> [op |-> "patch_executable", raid_index |-> raid_index,
                    raised |-> "PatchError", value |-> None],
          log  |-> Append(m.log, << "error", "Failed to write patched executable" >>)]

\* persist with the buffer flushed as soon as one patch has matched
persist_early(file, raid_index, m, w, n) ==
    IF m.raised # "none"
    THEN [disk |-> file,
          ret  |-> [op |-> "patch_executable", raid_index |-> raid_index,
                    raised |-> m.raised, value |-> None],
          log  |-> m.log]
    ELSE IF DOMAIN m.results.offsets # {}
    THEN [disk |-> m.exe_data,
          ret  |-> [op |-> "patch_executable", raid_index |-> raid_index,
                    raised |-> "none", value |-> m.results],
          log  |-> Append(m.log, << "written" >>)]
    ELSE [disk |-> file,
          ret  |-> [op |-> "patch_executable", raid_index |-> raid_index,
                    raised |-> "none", value |-> m.results],
          log  |-> Append(m.log, << "error", "Patching failed - executable not modified" >>)]

\* the rest of patch_executable, from "if results['success']" on: m is what
\* read_and_patch left, w and n the outcome of write_bytes
persist(file, raid_index, m, w, n) ==
    IF m.raised # "none"
    THEN [disk |-> file,
          ret  |-> [op |-> "patch_executable", raid_index |-> raid_index,
                    raised |-> m.raised, value |-> None],
          log  |-> m.log]
    ELSE IF m.results.success
    THEN IF w = "ok"
         THEN [disk |-> write_bytes(file, m.exe_data, w, n),
               ret  |-> [op |-> "patch_executable", raid_index |-> raid_index,
                         raised |-> "none", value |-> m.results],
               log  |-> Append(m.log, << "written" >>)]
         ELSE [disk |-> write_bytes(file, m.exe_data, w, n),
               ret  |-> [op |-> "patch_executable", raid_index |-> raid_index,
                         raised |-> "PatchError", value |-> None],
               log  |-> Append(m.log, << "error", "Failed to write patched executable" >>)]
    ELSE [disk |-> file,
          ret  |-> [op |-> "patch_executable", raid_index |-> raid_index,
                    raised |-> "none", value |-> m.results],
          log  |-> Append(m.log, << "error", "Patching failed - executable not modified" >>)]

\* patch_executable(exe_path, raid_index) on a file holding `file`: the file,
\* the outcome and the log lines it leaves
patch_executable(file, raid_index, readable, w, n) ==
    persist(file, raid_index, read_and_patch(file, raid_index, readable), w, n)

(***************************************************************************)
(* BinaryPatcher.verify_patch                                              *)
(***************************************************************************)
\* exe_data.startswith(search_pattern) in place of "in"
Contains_prefix(exe_data, search_pattern) ==
    /\ Len(search_pattern) <= Len(exe_data)
    /\ SubSeq(exe_data, 1, Len(search_pattern)) = search_pattern

\* "search_pattern in exe_data" on bytes
Contains(exe_data, search_pattern) ==
    \E i \in 0..(Len(exe_data) - Len(search_pattern)) :
        SubSeq(exe_data, i + 1, i + Len(search_pattern)) = search_pattern

\* verify_patch content with any "mov eax, imm32; nop", whatever its value
verify_patch_any_window(file, raid_index, readable) ==
    IF ~readable \/ ~FitsIn4Bytes(raid_index) THEN FALSE
    ELSE \E i \in 0..(Len(file) - 6) : file[i + 1] = \hB8 /\ file[i + 6] = \h90

\* verify_patch(exe_path, raid_index): every exception (a failed read, the
\* OverflowError of to_bytes) is caught and turned into False
verify_patch(file, raid_index, readable) ==
    IF ~readable \/ ~FitsIn4Bytes(raid_index) THEN FALSE
    ELSE Contains(file, << \hB8 >> \o to_bytes(raid_index) \o << \h90 >>)

\* what verify_patch logs: the except clause logs the exception it swallows
verify_patch_log(raid_index, readable) ==
    IF ~readable \/ ~FitsIn4Bytes(raid_index)
    THEN << << "error", "Verification failed" >> >>
    ELSE << >>

(***************************************************************************)
(* BackupManager.detect_current_patch                                      *)
(***************************************************************************)
pattern_start == \hB8
pattern_end == \h90

RECURSIVE DetectFrom_stop(_, _)
\* the loop giving up at the first window whose value is out of range
DetectFrom_stop(exe_data, i) ==
    IF i >= Len(exe_data) - 5 THEN None
    ELSE IF exe_data[i + 1] = pattern_start /\ exe_data[i + 6] = pattern_end
         THEN LET raid_index == from_bytes(SubSeq(exe_data, i + 2, i + 5))
              IN  IF Leq(PyInt(1), raid_index) /\ Leq(raid_index, PyInt(38))
                  THEN Small(raid_index)
                  ELSE None
    ELSE DetectFrom_stop(exe_data, i + 1)

RECURSIVE DetectFrom(_, _)
\* the loop over range(len(exe_data) - 5), from i on
DetectFrom(exe_data, i) ==
    IF i >= Len(exe_data) - 5 THEN None
    ELSE IF exe_data[i + 1] = pattern_start /\ exe_data[i + 6] = pattern_end
         THEN LET raid_index == from_bytes(SubSeq(exe_data, i + 2, i + 5))
              IN  IF Leq(PyInt(1), raid_index) /\ Leq(raid_index, PyInt(38))
                  THEN Small(raid_index)
                  ELSE DetectFrom(exe_data, i + 1)
    ELSE DetectFrom(exe_data, i + 1)

\* detect_current_patch with the except clause returning what a scan of the
\* bytes last seen would give
detect_current_patch_stale(file, readable) == DetectFrom(file, 0)

\* detect_current_patch(patched_exe): None when the file does not exist or
\* cannot be read
detect_current_patch(file, readable) ==
    IF ~readable THEN None ELSE DetectFrom(file, 0)

\* what detect_current_patch logs: exists says what patched_exe.exists()
\* answers, readable whether read_bytes succeeds
detect_current_patch_log(file, exists, readable) ==
    IF ~exists THEN << << "debug", "Patched exe doesn't exist" >> >>
    ELSE IF ~readable THEN << << "error", "Failed to detect current patch" >> >>
    ELSE IF DetectFrom(file, 0) = None
    THEN << << "debug", "No valid raid patch detected" >> >>
    ELSE << << "info", "Detected current patch", DetectFrom(file, 0) >> >>

(***************************************************************************)
(* The files of the installation.  A file is [exists, data]; a shortcut    *)
(* "DBFZ Raid {raid_index} - {raid_name}.lnk" is [raid, target], the name  *)
(* of a raid being a function of its index.                                *)
(***************************************************************************)
Absent == [exists |-> FALSE, data |-> << >>]

File(data) == [exists |-> TRUE, data |-> data]

(***************************************************************************)
(* BackupManager.verify_clean_exe, create_or_update_patched_exe            *)
(***************************************************************************)
\* verify_clean_exe(clean_exe): the exception it raises
verify_clean_exe(clean) == IF clean.exists THEN "none" ELSE "BackupError"

\* outcomes of shutil.copy2(clean_exe, patched_exe): it completes ("ok"), or
\* it raises before anything reached the destination ("open"), or it raises
\* after the first n bytes were written to a newly opened destination ("torn")
CopyOutcomes == { "ok", "open", "torn" }

\* the destination file copy2 leaves behind
copy2(src, dst, c, n) ==
    IF c = "ok" THEN File(src.data)
    ELSE IF c = "open" THEN dst
    ELSE File(SubSeq(src.data, 1, n))

\* the clean exe moved instead of copied (shutil.move)
create_or_update_patched_exe_move(clean, patched, unlink_ok, c, n) ==
    IF verify_clean_exe(clean) # "none"
    THEN [raised |-> "BackupError", clean_exe |-> clean, patched_exe |-> patched]
    ELSE LET old == IF patched.exists /\ unlink_ok THEN Absent ELSE patched
         IN  [raised      |-> IF c = "ok" THEN "none" ELSE "BackupError",
              clean_exe   |-> IF c = "ok" THEN Absent ELSE clean,
              patched_exe |-> copy2(clean, old, c, n)]

\* an existing patched exe kept as it is and patched again
create_or_update_patched_exe_keep(clean, patched, unlink_ok, c, n) ==
    IF verify_clean_exe(clean) # "none"
    THEN [raised |-> "BackupError", clean_exe |-> clean, patched_exe |-> patched]
    ELSE IF patched.exists
    THEN [raised |-> "none", clean_exe |-> clean, patched_exe |-> patched]
    ELSE [raised      |-> IF c = "ok" THEN "none" ELSE "BackupError",
          clean_exe   |-> clean,
          patched_exe |-> copy2(clean, patched, c, n)]

\* create_or_update_patched_exe(clean_exe, patched_exe): unlink_ok says
\* whether the old patched exe could be removed (a failure is only logged)
create_or_update_patched_exe(clean, patched, unlink_ok, c, n) ==
    IF verify_clean_exe(clean) # "none"
    THEN [raised |-> "BackupError", clean_exe |-> clean, patched_exe |-> patched]
    ELSE LET old == IF patched.exists /\ unlink_ok THEN Absent ELSE patched
         IN  [raised      |-> IF c = "ok" THEN "none" ELSE "BackupError",
              clean_exe   |-> clean,
              patched_exe |-> copy2(clean, old, c, n)]

(***************************************************************************)
(* BackupManager.cleanup_all                                               *)
(***************************************************************************)
RECURSIVE ShortcutErrors(_)
\* one error string per shortcut that could not be removed
ShortcutErrors(links) ==
    IF links = {} THEN << >>
    ELSE LET l == CHOOSE x \in links : \A y \in links : x.raid <= y.raid
         IN  << << "Failed to remove shortcut", l.raid >> >> \o ShortcutErrors(links \ { l })

\* a failure to remove the patched exe that is logged and not collected
cleanup_all_silent(patched, links, unlink_ok, scan_ok, kept) ==
    LET removed == patched.exists /\ unlink_ok
    IN  [patched_exe |-> IF removed THEN Absent ELSE patched,
         shortcuts   |-> IF scan_ok THEN kept ELSE links,
         results     |->
            [patched_exe_removed |-> removed,
             shortcuts_removed   |-> IF scan_ok THEN Cardinality(links \ kept) ELSE 0,
             errors |-> IF scan_ok THEN ShortcutErrors(kept)
                        ELSE << << "Error scanning for shortcuts in game folder" >> >>]]

\* cleanup_all(patched_exe, game_root): unlink_ok says whether the patched
\* exe could be removed, scan_ok whether game_root.glob worked, kept which
\* shortcuts could not be removed
cleanup_all(patched, links, unlink_ok, scan_ok, kept) ==
    LET removed == patched.exists /\ unlink_ok
        exe_errors == IF patched.exists /\ ~unlink_ok
                      THEN << << "Failed to remove patched exe" >> >> ELSE << >>
    IN  [patched_exe |-> IF removed THEN Absent ELSE patched,
         shortcuts   |-> IF scan_ok THEN kept ELSE links,
         results     |->
            [patched_exe_removed |-> removed,
             shortcuts_removed   |-> IF scan_ok THEN Cardinality(links \ kept) ELSE 0,
             errors |-> exe_errors \o
                        (IF scan_ok THEN ShortcutErrors(kept)
                         ELSE << << "Error scanning for shortcuts in game folder" >> >>)]]

(***************************************************************************)
(* ShortcutManager.create_shortcut and the workflows of DBFZRaidTUI        *)
(***************************************************************************)
\* create_shortcut(paths['patched_exe'], shortcut_path, raid_name): saving
\* replaces a shortcut of the same name
create_shortcut(links, raid_index, create_ok) ==
    IF create_ok
    THEN { l \in links : l.raid # Small(raid_index) }
            \cup { [raid |-> Small(raid_index), target |-> "patched_exe"] }
    ELSE links

\* check_current_patch(game_info)
check_current_patch(patched) == detect_current_patch(patched.data, patched.exists)

\* a workflow that leaves the old shortcuts where they are
remove_old_shortcuts_skipped(links, scan_ok, kept) == links

\* the shortcuts left by the loop over game_root.glob("DBFZ Raid *.lnk") in
\* Step 4: scan_ok says whether the glob worked, kept which shortcuts could
\* not be removed
remove_old_shortcuts(links, scan_ok, kept) == IF scan_ok THEN kept ELSE links

RECURSIVE RemovalLines(_, _)
\* the log lines of the loop over the old shortcuts in Step 4: every old
\* shortcut is announced, and a warning follows for each one in kept
RemovalLines(links, kept) ==
    IF links = { } THEN << >>
    ELSE LET l == CHOOSE x \in links : \A y \in links : x.raid <= y.raid
         IN  << << "info", "Removing old shortcut", l.raid >> >>
                \o (IF l \in kept
                    THEN << << "warning", "Could not remove old shortcut", l.raid >> >>
                    ELSE << >>)
                \o RemovalLines(links \ { l }, kept)

\* a workflow that goes on to the shortcuts whatever the result says
patch_failed_ignored(result) == FALSE

\* "if not result['success']": the patch step failed
patch_failed(result) == ~result.success

\* execute_patch_workflow(game_info, raid_index, current_raid) on the
\* installation fs; e holds what the user answers and what the file system
\* lets happen.  Every exception is caught inside the workflow.
execute_patch_workflow(fs, raid_index, current_raid, e) ==
    LET stop(at, clean, patched, links, result, lines, made) ==
            [clean_exe |-> clean, patched_exe |-> patched, shortcuts |-> links,
             ret |-> [op |-> "execute_patch_workflow", raid_index |-> raid_index,
                      raised |-> "none",
                      value |-> [stopped |-> at, result |-> result]],
             log |-> lines, patches |-> made]
    IN  IF current_raid = Small(raid_index) /\ ~e.confirm
        THEN stop("declined", fs.clean_exe, fs.patched_exe, fs.shortcuts, None, << >>, << >>)
        ELSE IF verify_clean_exe(fs.clean_exe) # "none"
        THEN stop("verify", fs.clean_exe, fs.patched_exe, fs.shortcuts, None, << >>, << >>)
        ELSE
        LET prep == create_or_update_patched_exe(fs.clean_exe, fs.patched_exe,
                                                 e.unlink_ok, e.c, e.cn)
        IN  IF prep.raised # "none"
            THEN stop("prepare", prep.clean_exe, prep.patched_exe, fs.shortcuts,
                      None, << >>, << >>)
            ELSE
            LET m == read_and_patch(prep.patched_exe.data, raid_index, e.readable)
                out == persist(prep.patched_exe.data, raid_index, m, e.w, e.n)
            IN  IF out.ret.raised # "none"
                THEN stop("patch", prep.clean_exe, File(out.disk), fs.shortcuts,
                          None, out.log, m.patches)
                ELSE IF patch_failed(out.ret.value)
                THEN stop("patch", prep.clean_exe, File(out.disk), fs.shortcuts,
                          out.ret.value, out.log, m.patches)
                ELSE stop("done", prep.clean_exe, File(out.disk),
                          create_shortcut(remove_old_shortcuts(fs.shortcuts, e.scan_ok, e.kept),
                                          raid_index, e.create_ok),
                          out.ret.value,
                          out.log \o (IF e.scan_ok THEN RemovalLines(fs.shortcuts, e.kept)
                                      ELSE << << "warning", "Error scanning for old shortcuts" >> >>)
                                 \o << << "info", "Creating shortcut", Small(raid_index) >> >>
                                 \o (IF e.create_ok THEN << >>
                                     ELSE << << "error", "Failed to create shortcut" >> >>),
                          m.patches)

\* execute_cleanup_workflow(game_info): confirmed says what the user
\* answered, results is what cleanup_all returned
execute_cleanup_workflow(fs, e) ==
    IF ~e.confirm
    THEN [clean_exe |-> fs.clean_exe, patched_exe |-> fs.patched_exe,
          shortcuts |-> fs.shortcuts,
          ret |-> [op |-> "execute_cleanup_workflow", raid_index |-> PyInt(0),
                   raised |-> "none",
                   value |-> [confirmed |-> FALSE, results |-> None]]]
    ELSE LET r == cleanup_all(fs.patched_exe, fs.shortcuts, e.unlink_ok, e.scan_ok, e.kept)
         IN  [clean_exe |-> fs.clean_exe, patched_exe |-> r.patched_exe,
              shortcuts |-> r.shortcuts,
              ret |-> [op |-> "execute_cleanup_workflow", raid_index |-> PyInt(0),
                       raised |-> "none",
                       value |-> [confirmed |-> TRUE, results |-> r.results]]]

(***************************************************************************)
(* DBFZRaidTUI.show_raid_menu.  A str is a sequence of one-character       *)
(* strings; what the menu has come to is [kind, raid, choice]: kind is     *)
(* "prompting" while the loop asks again, "None", "cleanup" or "int" once  *)
(* it has returned, raid the int returned, choice the text last read.      *)
(***************************************************************************)
\* choice.lower(), on the letters the inputs are made of
lower(choice) ==
    [k \in 1..Len(choice) |->
        CASE choice[k] = "Q" -> "q"
          [] choice[k] = "C" -> "c"
          [] choice[k] = "N" -> "n"
          [] OTHER -> choice[k]]

RECURSIVE Strip(_)
\* the whitespace int() ignores around the number
Strip(t) ==
    IF Len(t) > 0 /\ t[1] = " " THEN Strip(Tail(t))
    ELSE IF Len(t) > 0 /\ t[Len(t)] = " " THEN Strip(SubSeq(t, 1, Len(t) - 1))
    ELSE t

RECURSIVE Decimal(_, _)
\* the value of the first n decimal digits of d
Decimal(d, n) == IF n = 0 THEN 0 ELSE 10 * Decimal(d, n - 1) + HexDigit[d[n]]

\* int(choice): an optional sign and decimal digits, whitespace around them;
\* everything else raises ValueError
int(choice) ==
    LET t == Strip(choice)
        signed == Len(t) > 0 /\ t[1] \in { "+", "-" }
        d == IF signed THEN Tail(t) ELSE t
        digits == Len(d) > 0
                    /\ \A k \in 1..Len(d) :
                          d[k] \in { "0", "1", "2", "3", "4", "5", "6", "7", "8", "9" }
    IN  IF ~digits THEN [raised |-> "ValueError", value |-> PyInt(0)]
        ELSE [raised |-> "none",
              value |-> PyInt(IF signed /\ t[1] = "-" THEN 0 - Decimal(d, Len(d))
                              ELSE Decimal(d, Len(d)))]

\* str(n) for n in 0..99
str(n) ==
    LET digit == << "0", "1", "2", "3", "4", "5", "6", "7", "8", "9" >>
    IN  IF n < 10 THEN << digit[n + 1] >>
        ELSE << digit[(n \div 10) + 1], digit[(n % 10) + 1] >>

\* default_str, which Prompt.ask returns when the user just presses Enter
default_str(current_raid) ==
    IF current_raid # None /\ current_raid # 0
    THEN << "C", "u", "r", "r", "e", "n", "t", " ", "r", "a", "i", "d", ":", " " >>
            \o str(current_raid)
    ELSE << "N", "o", " ", "c", "u", "r", "r", "e", "n", "t", " ", "r", "a", "i", "d" >>

\* one pass of the loop without the test of the range
show_raid_menu_unchecked(event, current_raid) ==
    IF event.key = "interrupt"
    THEN [kind |-> "None", raid |-> PyInt(0), choice |-> << >>]
    ELSE LET choice == IF event.text = << >> THEN default_str(current_raid)
                       ELSE event.text
             choice_lower == lower(choice)
             raid_idx == int(choice)
         IN  IF choice_lower = << "q" >>
             THEN [kind |-> "None", raid |-> PyInt(0), choice |-> choice]
             ELSE IF choice_lower = << "c" >>
             THEN [kind |-> "cleanup", raid |-> PyInt(0), choice |-> choice]
             ELSE IF raid_idx.raised = "ValueError"
             THEN [kind |-> "prompting", raid |-> PyInt(0), choice |-> choice]
             ELSE [kind |-> "int", raid |-> raid_idx.value, choice |-> choice]

\* one pass of the "while True" loop of show_raid_menu(current_raid): the
\* user types a line or interrupts
show_raid_menu(event, current_raid) ==
    IF event.key = "interrupt"
    THEN [kind |-> "None", raid |-> PyInt(0), choice |-> << >>]
    ELSE LET choice == IF event.text = << >> THEN default_str(current_raid)
                       ELSE event.text
             choice_lower == lower(choice)
             raid_idx == int(choice)
         IN  IF choice_lower = << "q" >>
             THEN [kind |-> "None", raid |-> PyInt(0), choice |-> choice]
             ELSE IF choice_lower = << "c" >>
             THEN [kind |-> "cleanup", raid |-> PyInt(0), choice |-> choice]
             ELSE IF raid_idx.raised = "ValueError"
             THEN [kind |-> "prompting", raid |-> PyInt(0), choice |-> choice]
             ELSE IF Leq(PyInt(1), raid_idx.value) /\ Leq(raid_idx.value, PyInt(38))
             THEN [kind |-> "int", raid |-> raid_idx.value, choice |-> choice]
             ELSE [kind |-> "prompting", raid |-> PyInt(0), choice |-> choice]

(***************************************************************************)
(* Inputs.                                                                 *)
(***************************************************************************)
\* the bytes a pattern string matches when it has no wildcard
BytesOf(pattern) == [j \in 1..Len(Split(pattern)) |-> ParseHex(Split(pattern)[j])]

\* what initial files are made of: the three code sites the patches look
\* for, a run of all three, a site a game update changed in its last byte,
\* an unrelated "mov eax, 7; nop", and a padding byte
Blocks ==
    { BytesOf(get_pattern), BytesOf(set_pattern), BytesOf(status_pattern),
      BytesOf(get_pattern) \o BytesOf(set_pattern) \o BytesOf(status_pattern),
      SubSeq(BytesOf(get_pattern), 1, 5) \o << \h01 >>,
      << \hB8, 7, 0, 0, 0, \h90 >>,
      << \hCC >> }

RECURSIVE Flatten(_)
Flatten(ss) == IF Len(ss) = 0 THEN << >> ELSE Head(ss) \o Flatten(Tail(ss))

Files == { Flatten(ss) : ss \in UNION { [1..n -> Blocks] : n \in 0..MaxSegs } }

\* raid indexes handed to the engine: zero, the ends of the valid range
\* 1..38, a two-byte value above it, the largest value that fits in 4 bytes
\* (2^32 - 1) and the smallest that does not (2^32)
RaidInputs ==
    { PyInt(0), PyInt(1), PyInt(38), PyInt(300),
      [hi |-> 65535, lo |-> 65535], [hi |-> 65536, lo |-> 0] }

NoCall == [op |-> "none", raid_index |-> PyInt(0), raised |-> "none", value |-> None]

\* no menu is shown
NoMenu == [kind |-> "off", raid |-> PyInt(0), choice |-> << >>]

\* no replace_pattern call is under way
NoFrame ==
    [called |-> FALSE, exe_data |-> << >>, pattern |-> << >>, new_bytes |-> << >>,
     offset |-> NOT_FOUND, out |-> << >>, raised |-> "none"]

\* inputs of a direct replace_pattern call: buffers over three byte values,
\* patterns of the elements "AA", "ff" and "??", replacements 11 22 33 ...
ScanBytes == { \h00, \hAA, \hFF }

ScanElements == { << "A", "A" >>, << "f", "f" >>, Wildcard }

RECURSIVE Join(_)
\* " ".join(elements)
Join(elements) ==
    IF Len(elements) = 1 THEN elements[1]
    ELSE elements[1] \o << " " >> \o Join(Tail(elements))

ScanBuffers == UNION { [1..n -> ScanBytes] : n \in 0..MaxBuf }

ScanPatterns == { Join(e) : e \in UNION { [1..n -> ScanElements] : n \in 1..MaxPat } }

ScanReplacements == { [k \in 1..n |-> 17 * k] : n \in 0..MaxRep }

(***************************************************************************)
(* Specification Spec: calls of the engine on one file.  A call that       *)
(* raises is not caught by the engine; the run of the caller ends there.   *)
(***************************************************************************)
Init ==
    /\ disk \in Files
    /\ ret = NoCall
    /\ log = << >>
    /\ call = NoFrame
    /\ patch_set = << >>
    /\ clean_exe = Absent
    /\ patched_exe = Absent
    /\ shortcuts = { }
    /\ selection = NoMenu

PatchExecutable ==
    /\ ret.raised = "none"
    /\ \E raid_index \in RaidInputs, readable \in BOOLEAN :
          \E m \in { read_and_patch(disk, raid_index, readable) } :
          \E w \in WriteOutcomes, n \in 0..Len(m.exe_data) :
              /\ w # "torn" => n = 0
              /\ ~Writes(m) => w = "ok"
              /\ \E out \in { persist(disk, raid_index, m, w, n) } :
                    /\ disk' = out.disk
                    /\ ret' = out.ret
                    /\ log' = out.log
                    /\ patch_set' = m.patches
    /\ UNCHANGED << call, install, selection >>

VerifyPatch ==
    /\ ret.raised = "none"
    /\ \E raid_index \in RaidInputs, readable \in BOOLEAN :
          /\ ret' = [op |-> "verify_patch", raid_index |-> raid_index, raised |-> "none",
                     value |-> verify_patch(disk, raid_index, readable)]
          /\ log' = verify_patch_log(raid_index, readable)
    /\ patch_set' = << >>
    /\ UNCHANGED << disk, call, install, selection >>

DetectCurrentPatch ==
    /\ ret.raised = "none"
    /\ \E exists \in BOOLEAN, readable \in BOOLEAN :
          /\ ~exists => readable
          /\ ret' = [op |-> "detect_current_patch", raid_index |-> PyInt(0),
                     raised |-> "none",
                     value |-> detect_current_patch(disk, exists /\ readable)]
          /\ log' = detect_current_patch_log(disk, exists, readable)
    /\ patch_set' = << >>
    /\ UNCHANGED << disk, call, install, selection >>

Next == PatchExecutable \/ VerifyPatch \/ DetectCurrentPatch

Spec == Init /\ [][Next]_vars

(***************************************************************************)
(* Specification SpecScan: one direct call of replace_pattern.  The frame  *)
(* keeps the buffer as it was at the call (exe_data) beside the buffer as  *)
(* the call leaves it (out).                                               *)
(***************************************************************************)
InitScan ==
    /\ disk = << >>
    /\ ret = NoCall
    /\ log = << >>
    /\ patch_set = << >>
    /\ clean_exe = Absent
    /\ patched_exe = Absent
    /\ shortcuts = { }
    /\ selection = NoMenu
    /\ \E b \in ScanBuffers, p \in ScanPatterns, r \in ScanReplacements :
          call = [called |-> FALSE, exe_data |-> b, pattern |-> p, new_bytes |-> r,
                  offset |-> NOT_FOUND, out |-> b, raised |-> "none"]

ReplacePattern ==
    /\ ~call.called
    /\ \E r \in { replace_pattern(call.exe_data, call.pattern, call.new_bytes) } :
          call' = [call EXCEPT !.called = TRUE, !.offset = r.offset,
                               !.out = r.exe_data, !.raised = r.raised]
    /\ UNCHANGED << disk, ret, log, patch_set, install, selection >>

NextScan == ReplacePattern

SpecScan == InitScan /\ [][NextScan]_vars

(***************************************************************************)
(* Specification SpecOrder: the loop of patch_executable run once over the *)
(* three patches taken in one of their 6 orders, on a buffer read from one *)
(* file.  ret.value holds the results dictionary and the buffer in memory  *)
(* at the end of the loop.                                                 *)
(***************************************************************************)
\* the loop state before the first patch
Fresh(file) ==
    [exe_data |-> file,
     results  |-> [success |-> TRUE, offsets |-> << >>, errors |-> << >>],
     log      |-> << >>]

\* the orders in which the items of a patch dict can come
Orders(q) ==
    { [k \in 1..Len(q) |-> q[p[k]]] :
        p \in { f \in [1..Len(q) -> 1..Len(q)] :
                  \A a, b \in 1..Len(q) : a # b => f[a] # f[b] } }

\* raid indexes of the order check: those of RaidInputs that fit in 4 bytes
\* and three whose bytes are the first 4 bytes of one of the patterns
\* (8B 81 C4 53, 66 0F 73 DA, 83 78 10 02)
OrderRaids ==
    { r \in RaidInputs : FitsIn4Bytes(r) }
        \cup { from_bytes(SubSeq(BytesOf(get_pattern), 1, 4)),
               from_bytes(SubSeq(BytesOf(set_pattern), 1, 4)),
               from_bytes(SubSeq(BytesOf(status_pattern), 1, 4)) }

InitOrder ==
    /\ disk \in Files
    /\ log = << >>
    /\ call = NoFrame
    /\ clean_exe = Absent
    /\ patched_exe = Absent
    /\ shortcuts = { }
    /\ selection = NoMenu
    /\ \E raid_index \in OrderRaids :
          /\ ret = [op |-> "none", raid_index |-> raid_index, raised |-> "none",
                    value |-> None]
          /\ patch_set \in Orders(create_raid_patches(raid_index))

ApplyInOrder ==
    /\ ret.op = "none"
    /\ \E st \in { ApplyPatches(Fresh(disk), patch_set, 1) } :
          /\ ret' = [op |-> "ApplyPatches", raid_index |-> ret.raid_index,
                     raised |-> "none",
                     value |-> [results |-> st.results, exe_data |-> st.exe_data]]
          /\ log' = st.log
    /\ UNCHANGED << disk, call, patch_set, install, selection >>

NextOrder == ApplyInOrder

SpecOrder == InitOrder /\ [][NextOrder]_vars

(***************************************************************************)
(* Specification SpecFlow: the workflows of the application on one game    *)
(* installation, each run of a workflow being one step.                    *)
(***************************************************************************)
\* the three code sites in a row
Body == BytesOf(get_pattern) \o BytesOf(set_pattern) \o BytesOf(status_pattern)

\* clean executables: the three sites alone, behind a padding byte, behind
\* and before an unrelated "mov eax, 7; nop", twice in a row, and with the
\* get_raid site changed by a game update
CleanFiles ==
    { Body,
      << \hCC >> \o Body,
      << \hB8, 7, 0, 0, 0, \h90 >> \o Body,
      Body \o << \hB8, 7, 0, 0, 0, \h90 >>,
      Body \o Body,
      SubSeq(BytesOf(get_pattern), 1, 5) \o << \h01 >>
          \o BytesOf(set_pattern) \o BytesOf(status_pattern) }

\* where a copy or a write may be cut short: before the first byte, half
\* way, after the last byte
Tears(data) == { 0, Len(data) \div 2, Len(data) }

\* what Prompt.ask may hand back; << >> stands for a bare Enter
MenuKeys ==
    { << >>, << "q" >>, << "Q" >>, << "c" >>, << "C" >>, << "x" >>,
      << "0" >>, << "1" >>, << "3", "9" >>, << "-", "1" >>,
      << "+", "3", "8" >>, << "1", "q" >> }

\* a line typed at the prompt, or Ctrl-C
MenuEvents ==
    { [key |-> "line", text |-> t] : t \in MenuKeys }
        \cup { [key |-> "interrupt", text |-> << >>] }

\* the menu before the user has typed anything
Prompting == [kind |-> "prompting", raid |-> PyInt(0), choice |-> << >>]

\* an installation left by an earlier run for raid 1
Installed == [patched_exe |-> File(read_and_patch(Body, PyInt(1), TRUE).exe_data),
              shortcuts   |-> { [raid |-> 1, target |-> "patched_exe"] }]

InitFlow ==
    /\ disk = << >>
    /\ ret = NoCall
    /\ log = << >>
    /\ call = NoFrame
    /\ patch_set = << >>
    /\ clean_exe \in { File(f) : f \in CleanFiles } \cup { Absent }
    /\ \/ patched_exe = Absent /\ shortcuts = { }
       \/ patched_exe = Installed.patched_exe /\ shortcuts = Installed.shortcuts
    /\ selection = Prompting

\* one pass of the loop of show_raid_menu, called from run() with the raid
\* check_current_patch found
ShowRaidMenu ==
    /\ selection.kind = "prompting"
    /\ \E event \in MenuEvents :
          selection' = show_raid_menu(event, check_current_patch(patched_exe))
    /\ UNCHANGED << disk, ret, log, call, patch_set, install >>

\* run(): "if selection is None", the user leaves
Cancel ==
    /\ selection.kind = "None"
    /\ ret' = [op |-> "run", raid_index |-> PyInt(0), raised |-> "none", value |-> None]
    /\ log' = << >>
    /\ patch_set' = << >>
    /\ selection' = Prompting
    /\ UNCHANGED << disk, call, install >>

\* run(): "else", selection is the raid to patch for
ExecutePatchWorkflow ==
    /\ selection.kind = "int"
    /\ \E confirm \in BOOLEAN, unlink_ok \in BOOLEAN,
          c \in CopyOutcomes, cn \in Tears(clean_exe.data), readable \in BOOLEAN,
          w \in WriteOutcomes, n \in Tears(clean_exe.data),
          scan_ok \in BOOLEAN, kept \in SUBSET shortcuts, create_ok \in BOOLEAN :
          /\ c # "torn" => cn = 0
          /\ w # "torn" => n = 0
          /\ ~patched_exe.exists => unlink_ok
          /\ c # "ok" => (readable /\ w = "ok")
          /\ ~readable => w = "ok"
          /\ (c # "ok" \/ ~readable \/ w # "ok") => (kept = { } /\ create_ok /\ scan_ok)
          /\ ~scan_ok => kept = shortcuts
          /\ check_current_patch(patched_exe) # Small(selection.raid) => confirm
          /\ \E out \in { execute_patch_workflow(
                              [clean_exe |-> clean_exe, patched_exe |-> patched_exe,
                               shortcuts |-> shortcuts],
                              selection.raid, check_current_patch(patched_exe),
                              [confirm |-> confirm, unlink_ok |-> unlink_ok, c |-> c,
                               cn |-> cn, readable |-> readable, w |-> w, n |-> n,
                               scan_ok |-> scan_ok, kept |-> kept,
                               create_ok |-> create_ok]) } :
                /\ clean_exe' = out.clean_exe
                /\ patched_exe' = out.patched_exe
                /\ shortcuts' = out.shortcuts
                /\ ret' = out.ret
                /\ log' = out.log
                /\ patch_set' = out.patches
    /\ selection' = Prompting
    /\ UNCHANGED << disk, call >>

\* run(): "elif selection == 'cleanup'"
ExecuteCleanupWorkflow ==
    /\ selection.kind = "cleanup"
    /\ \E confirm \in BOOLEAN, unlink_ok \in BOOLEAN, scan_ok \in BOOLEAN,
          kept \in SUBSET shortcuts :
          /\ ~confirm => (unlink_ok /\ scan_ok /\ kept = { })
          /\ ~scan_ok => kept = shortcuts
          /\ \E out \in { execute_cleanup_workflow(
                              [clean_exe |-> clean_exe, patched_exe |-> patched_exe,
                               shortcuts |-> shortcuts],
                              [confirm |-> confirm, unlink_ok |-> unlink_ok,
                               scan_ok |-> scan_ok, kept |-> kept]) } :
                /\ clean_exe' = out.clean_exe
                /\ patched_exe' = out.patched_exe
                /\ shortcuts' = out.shortcuts
                /\ ret' = out.ret
    /\ log' = << >>
    /\ patch_set' = << >>
    /\ selection' = Prompting
    /\ UNCHANGED << disk, call >>

NextFlow == ShowRaidMenu \/ Cancel \/ ExecutePatchWorkflow \/ ExecuteCleanupWorkflow

SpecFlow == InitFlow /\ [][NextFlow]_vars

(***************************************************************************)
(* Vocabulary of the properties.                                           *)
(***************************************************************************)
\* the pattern elements e match buffer b at offset i
OccursAt(b, e, i) ==
    /\ i >= 0
    /\ i + Len(e) <= Len(b)
    /\ \A j \in 1..Len(e) : e[j] = Wildcard \/ ParseHex(e[j]) = b[i + j]

\* the offsets at which e matches b
Occurrences(b, e) == { i \in 0..(Len(b) - Len(e)) : OccursAt(b, e, i) }

\* the least element of a non-empty set of offsets
Least(S) == CHOOSE i \in S : \A k \in S : i <= k

PatchNames == { "get_raid", "set_raid", "raid_status" }

\* the pattern elements of a named patch
ElementsOf(name) ==
    CASE name = "get_raid" -> Split(get_pattern)
      [] name = "set_raid" -> Split(set_pattern)
      [] name = "raid_status" -> Split(status_pattern)

\* the names whose pattern matches nowhere in b
Missing(b) == { name \in PatchNames : Occurrences(b, ElementsOf(name)) = {} }

\* r is the result dictionary a patch_executable call returned
Returned(r) == r.op = "patch_executable" /\ r.raised = "none"

\* r is a result with success = True
Succeeded(r) == Returned(r) /\ r.value.success

\* the call that logged l could not read its file
ReadFailed(l) == \E k \in 1..Len(l) : l[k] = << "error", "Failed to read executable" >>

\* the elements of sequence q
Range(q) == { q[k] : k \in 1..Len(q) }

(***************************************************************************)
(* C1.  All-or-nothing.  A patch_executable call that read its file, with  *)
(* a raid index that fits in 4 bytes, on a file in which at least one of   *)
(* the three patterns matches nowhere, leaves the file on disk exactly as  *)
(* it was and returns success = False with a non-empty error list that     *)
(* holds the error string of every missing patch.                          *)
(***************************************************************************)
C1_AllOrNothing ==
    [][ ( /\ ret'.op = "patch_executable"
          /\ ~ReadFailed(log')
          /\ FitsIn4Bytes(ret'.raid_index)
          /\ Missing(disk) # {} )
        => ( /\ disk' = disk
             /\ ret'.raised = "none"
             /\ ret'.value.success = FALSE
             /\ ret'.value.errors # << >>
             /\ \A name \in Missing(disk) :
                    error_msg(name) \in Range(ret'.value.errors) ) ]_vars

\* a call returned with one patch missing and the two others matched in memory
C1_Witness ==
    /\ Returned(ret)
    /\ ~ret.value.success
    /\ Missing(disk) = { "get_raid" }
    /\ DOMAIN ret.value.offsets = { "set_raid", "raid_status" }
    /\ ret.value.errors = << error_msg("get_raid") >>

(***************************************************************************)
(* C2.  For every buffer B and pattern P of N <= len(B) elements,          *)
(* replace_pattern returns an offset i in [0, len(B) - N] at which every   *)
(* non-wildcard element of P equals the byte of B (as it was at the call)  *)
(* under it, a "??" element matching whatever byte is there, and it        *)
(* returns NOT_FOUND exactly when there is no such offset.                 *)
(***************************************************************************)
C2_ScanCorrect ==
    call.called =>
        LET e == Split(call.pattern)
            B == call.exe_data
        IN  Len(e) <= Len(B) =>
              /\ call.offset # NOT_FOUND =>
                    /\ call.offset \in 0..(Len(B) - Len(e))
                    /\ OccursAt(B, e, call.offset)
              /\ call.offset = NOT_FOUND <=> Occurrences(B, e) = {}

\* a match through a wildcard, found at the last offset of the scan range
C2_Witness ==
    /\ call.called
    /\ call.pattern = Join(<< Wildcard, << "f", "f" >> >>)
    /\ call.exe_data = << \hAA, \h00, \hFF >>
    /\ call.offset = 1

(***************************************************************************)
(* C3 as claimed.  When the pattern matches at several offsets,            *)
(* replace_pattern returns the smallest one and every other occurrence is  *)
(* left as it was.                                                         *)
(***************************************************************************)
C3_OthersUntouched ==
    (call.called /\ call.offset # NOT_FOUND) =>
        LET e == Split(call.pattern)
            B == call.exe_data
            occ == Occurrences(B, e)
        IN  /\ call.offset = Least(occ)
            /\ \A k \in occ \ { call.offset } :
                  /\ k + Len(e) <= Len(call.out)
                  /\ SubSeq(call.out, k + 1, k + Len(e)) = SubSeq(B, k + 1, k + Len(e))

(***************************************************************************)
(* C3 as amended.  When the pattern matches, replace_pattern returns the   *)
(* smallest matching offset i, writes the replacement at [i, i + R) and    *)
(* nowhere else: every byte outside [i, i + R) is as it was, so every      *)
(* other occurrence that starts at or after i + R is left as it was.       *)
(***************************************************************************)
C3_Leftmost ==
    (call.called /\ Occurrences(call.exe_data, Split(call.pattern)) # {}) =>
        LET e == Split(call.pattern)
            B == call.exe_data
            occ == Occurrences(B, e)
            i == call.offset
            R == Len(call.new_bytes)
        IN  /\ i = Least(occ)
            /\ SubSeq(call.out, i + 1, i + R) = call.new_bytes
            /\ \A k \in 0..(Len(B) - 1) :
                  (k < i \/ k >= i + R) => call.out[k + 1] = B[k + 1]
            /\ \A k \in occ :
                  k >= i + R =>
                    SubSeq(call.out, k + 1, k + Len(e)) = SubSeq(B, k + 1, k + Len(e))

\* two occurrences, the second one clear of the bytes written at the first
C3_Witness ==
    /\ call.called
    /\ call.offset = 0
    /\ call.new_bytes = << 17 >>
    /\ call.exe_data = << \hAA, \h00, \hAA, \hFF >>
    /\ call.pattern = << "A", "A" >>
    /\ call.out = << 17, \h00, \hAA, \hFF >>

(***************************************************************************)
(* C9.  When replace_pattern matches at offset i with                      *)
(* i + len(replacement) > len(buffer), it reports an error and leaves the  *)
(* buffer as it was: the buffer does not change length and no part of the  *)
(* replacement is written.                                                 *)
(***************************************************************************)
C9_FailsLoudly ==
    LET e == Split(call.pattern)
        B == call.exe_data
        occ == Occurrences(B, e)
    IN  ( /\ call.called
          /\ occ # {}
          /\ Least(occ) + Len(call.new_bytes) > Len(B) )
        => ( /\ call.raised # "none"
             /\ Len(call.out) = Len(B)
             /\ call.out = B )

(***************************************************************************)
(* More vocabulary: the valid range of the application, stated on bytes.   *)
(***************************************************************************)
\* n is in the valid range 1..38
InValidRange(n) == n.hi = 0 /\ n.lo >= 1 /\ n.lo <= 38

\* the 4 bytes b are the little-endian serialisation of n
Serialises(b, n) ==
    /\ Len(b) = 4
    /\ \A k \in 1..4 : b[k] \in 0..255
    /\ b[1] + 256 * b[2] = n.lo
    /\ b[3] + 256 * b[4] = n.hi

\* at offset i of b stands B8, 4 bytes that decode to a value in 1..38, 90
ValidWindowAt(b, i) ==
    /\ i >= 0
    /\ i + 6 <= Len(b)
    /\ b[i + 1] = \hB8
    /\ b[i + 6] = \h90
    /\ b[i + 2] \in 1..38
    /\ b[i + 3] = 0 /\ b[i + 4] = 0 /\ b[i + 5] = 0

(***************************************************************************)
(* C4 as claimed.  After a successful patch_executable(path, X) with X in  *)
(* 1..38, detect_current_patch on the file returns X, whatever the file    *)
(* held.                                                                   *)
(***************************************************************************)
C4_DetectReturnsX ==
    (Succeeded(ret) /\ InValidRange(ret.raid_index))
        => detect_current_patch(disk, TRUE) = Small(ret.raid_index)

(***************************************************************************)
(* C4 as amended.  After a successful patch_executable(path, X) with X in  *)
(* 1..38 on a file in which no window B8 v 90 with v in 1..38 starts       *)
(* before the offset at which get_raid matched, detect_current_patch on    *)
(* the resulting file returns X.                                           *)
(***************************************************************************)
C4_RoundTrip ==
    [][ ( /\ Succeeded(ret')
          /\ InValidRange(ret'.raid_index)
          /\ \A i \in 0..(ret'.value.offsets.get_raid - 1) : ~ValidWindowAt(disk, i) )
        => detect_current_patch(disk', TRUE) = Small(ret'.raid_index) ]_vars

\* raid 38 detected in a patched file that also holds a "mov eax, 7; nop"
\* further on
C4_Witness ==
    /\ Succeeded(ret)
    /\ ret.raid_index = PyInt(38)
    /\ ret.value.offsets.get_raid = 0
    /\ ValidWindowAt(disk, 27) /\ disk[29] = 7
    /\ detect_current_patch(disk, TRUE) = 38

(***************************************************************************)
(* C5.  verify_patch(path, X) returns True right after a successful        *)
(* patch_executable(path, X), for every file and every X that fits in 4    *)
(* bytes (the file being readable).                                        *)
(***************************************************************************)
C5_VerifyAfterPatch ==
    Succeeded(ret) => verify_patch(disk, ret.raid_index, TRUE)

\* a successful patch with the largest raid index that fits in 4 bytes
C5_Witness ==
    /\ Succeeded(ret)
    /\ ret.raid_index = [hi |-> 65535, lo |-> 65535]
    /\ Contains(disk, << \hB8, 255, 255, 255, 255, \h90 >>)

(***************************************************************************)
(* C6 as claimed.  After a successful patch_executable(path, X) followed   *)
(* by a successful patch_executable(path, Y), Y # X, on the same file,     *)
(* verify_patch(path, X) returns False and verify_patch(path, Y) True.     *)
(***************************************************************************)
C6_LastWins ==
    [][ (Succeeded(ret) /\ Succeeded(ret') /\ ret'.raid_index # ret.raid_index)
        => ( /\ ~verify_patch(disk', ret.raid_index, TRUE)
             /\ verify_patch(disk', ret'.raid_index, TRUE) ) ]_vars

(***************************************************************************)
(* C6 as amended.  After a successful patch_executable(path, X) followed   *)
(* by a successful patch_executable(path, Y), Y # X, on the same file,     *)
(* verify_patch(path, Y) returns True and verify_patch(path, X) still      *)
(* returns True: the second call patches the next occurrence of each       *)
(* pattern and leaves the bytes B8 X 90 of the first call in the file.     *)
(***************************************************************************)
C6_BothVerify ==
    [][ (Succeeded(ret) /\ Succeeded(ret') /\ ret'.raid_index # ret.raid_index)
        => ( /\ verify_patch(disk', ret'.raid_index, TRUE)
             /\ verify_patch(disk', ret.raid_index, TRUE) ) ]_vars

\* raid 300 patched at the second get_raid site of a file whose first site
\* carries raid 38 from the call before
C6_Witness ==
    /\ Succeeded(ret)
    /\ ret.raid_index = PyInt(300)
    /\ ret.value.offsets.get_raid = 27
    /\ SubSeq(disk, 1, 6) = << \hB8, 38, 0, 0, 0, \h90 >>

C10_Collected ==
    [][ ( /\ ret'.op = "patch_executable"
          /\ ~ReadFailed(log')
          /\ FitsIn4Bytes(ret'.raid_index) )
        => LET attempts == SelectSeq(log', LAMBDA l : l[1] = "Applying")
           IN  /\ [k \in 1..Len(attempts) |-> attempts[k][2]]
                     = << "get_raid", "set_raid", "raid_status" >>
               /\ ret'.raised = "none" =>
                     \A name \in PatchNames :
                       LET offsets == ret'.value.offsets
                           errors == ret'.value.errors
                           named == { k \in 1..Len(errors) : errors[k][1] = name }
                           occ == Occurrences(disk, ElementsOf(name))
                       IN  \/ /\ name \in DOMAIN offsets
                              /\ named = {}
                              /\ occ # {}
                              /\ offsets[name] = Least(occ)
                           \/ /\ name \notin DOMAIN offsets
                              /\ Cardinality(named) = 1
                              /\ error_msg(name) \in Range(errors)
                              /\ occ = {} ]_vars

\* set_raid attempted and matched after get_raid failed, raid_status
\* attempted and failed after that
C10_Witness ==
    /\ Returned(ret)
    /\ ret.value.errors = << error_msg("get_raid"), error_msg("raid_status") >>
    /\ DOMAIN ret.value.offsets = { "set_raid" }
    /\ log[4] = << "Applying", "set_raid" >>
    /\ log[6] = << "Applying", "raid_status" >>

(***************************************************************************)
(* Vocabulary of the properties about the write-back.                      *)
(***************************************************************************)
\* the log lines that stand for a call of write_bytes
WriteLines(l) ==
    SelectSeq(l, LAMBDA e : \/ e = << "written" >>
                            \/ e = << "error", "Failed to write patched executable" >>)

\* the buffer in memory after the first k patches of the set for raid_index
\* were applied to file
BufferAfter(file, raid_index, k) ==
    ApplyPatches([exe_data |-> file,
                  results  |-> [success |-> TRUE, offsets |-> << >>, errors |-> << >>],
                  log      |-> << >>],
                 SubSeq(create_raid_patches(raid_index), 1, k), 1).exe_data

\* p is the first Len(p) bytes of b
IsPrefix(p, b) == Len(p) <= Len(b) /\ SubSeq(b, 1, Len(p)) = p

(***************************************************************************)
(* C11.  In every result patch_executable returns, success is True exactly *)
(* when the errors list is empty, and exactly when offsets has the three   *)
(* patch names get_raid, set_raid, raid_status as its keys.                *)
(***************************************************************************)
C11_SuccessIffNoErrors ==
    Returned(ret) =>
        /\ ret.value.success <=> ret.value.errors = << >>
        /\ ret.value.success <=> DOMAIN ret.value.offsets = PatchNames

\* a result with two of the three names in offsets and one error
C11_Witness ==
    /\ Returned(ret)
    /\ ~ret.value.success
    /\ DOMAIN ret.value.offsets = { "get_raid", "set_raid" }
    /\ ret.value.errors = << error_msg("raid_status") >>

(***************************************************************************)
(* C12.  When the write of the fully patched buffer fails or is cut short, *)
(* the file holds either all of its contents from before the call or all   *)
(* of the patched buffer, never a truncated or partly written image, and   *)
(* the call raises PatchError.                                             *)
(***************************************************************************)
C12_NoPartialState ==
    [][ ret'.op = "patch_executable" =>
          /\ \/ disk' = disk
             \/ /\ FitsIn4Bytes(ret'.raid_index)
                /\ disk' = BufferAfter(disk, ret'.raid_index, 3)
          /\ (\E k \in 1..Len(log') :
                  log'[k] = << "error", "Failed to write patched executable" >>)
                => ret'.raised = "PatchError" ]_vars

(***************************************************************************)
(* C13.  When the file cannot be read, patch_executable raises PatchError  *)
(* at once: no patch set is generated (an index that does not fit in 4     *)
(* bytes is not even looked at), no pattern is scanned, nothing is         *)
(* written, and the file on disk is as it was.                             *)
(***************************************************************************)
C13_ReadFailure ==
    [][ (ret'.op = "patch_executable" /\ ReadFailed(log')) =>
          /\ ret'.raised = "PatchError"
          /\ ret'.value = None
          /\ log' = << << "Starting patch process", ret'.raid_index >>,
                       << "error", "Failed to read executable" >> >>
          /\ WriteLines(log') = << >>
          /\ disk' = disk ]_vars

\* the read failed in a call whose index would not serialise and whose file
\* holds all three patterns
C13_Witness ==
    /\ ret.op = "patch_executable"
    /\ ret.raised = "PatchError"
    /\ ReadFailed(log)
    /\ ~FitsIn4Bytes(ret.raid_index)
    /\ Missing(disk) = {}

(***************************************************************************)
(* C14.  In one patch_executable call the file is written at most once,    *)
(* and only after all three patches were attempted and all three matched:  *)
(* the write is the last thing the call does, what it writes is the buffer *)
(* with all three patches applied, and the buffer with only one or two     *)
(* patches applied never reaches the file.                                 *)
(***************************************************************************)
C14_SingleWrite ==
    [][ ret'.op = "patch_executable" =>
          LET writes == WriteLines(log')
          IN  /\ Len(writes) <= 1
              /\ disk' # disk => Len(writes) = 1
              /\ Len(writes) = 1 =>
                    /\ log'[Len(log')] = writes[1]
                    /\ Len(log') = 8
                    /\ \A k \in { 2, 4, 6 } : log'[k][1] = "Applying"
                    /\ << log'[3][1], log'[3][2] >> = << "applied", "get_raid" >>
                    /\ << log'[5][1], log'[5][2] >> = << "applied", "set_raid" >>
                    /\ << log'[7][1], log'[7][2] >> = << "applied", "raid_status" >>
                    /\ Missing(disk) = {}
                    /\ \/ disk' = disk
                       \/ IsPrefix(disk', BufferAfter(disk, ret'.raid_index, 3))
                    /\ \A k \in 1..2 : disk' # BufferAfter(disk, ret'.raid_index, k) ]_vars

\* a call that wrote the file: the write comes after the third patch
C14_Witness ==
    /\ Succeeded(ret)
    /\ Len(log) = 8
    /\ log[8] = << "written" >>
    /\ log[7][1] = "applied" /\ log[7][2] = "raid_status"
    /\ SubSeq(disk, ret.value.offsets.raid_status + 1, ret.value.offsets.raid_status + 4)
          = status_replacement

(***************************************************************************)
(* C15.  The clean executable is never modified: over every sequence of    *)
(* patch workflows (ending at any step) and cleanup workflows no step      *)
(* writes, deletes or replaces it, so it holds its initial contents in     *)
(* every reachable state; the patches go to the patched exe, a separate    *)
(* working copy.                                                           *)
(***************************************************************************)
C15_CleanNeverModified ==
    [][ /\ clean_exe' = clean_exe
        /\ (ret'.op = "execute_patch_workflow" /\ ret'.value.stopped = "done") =>
              /\ patched_exe'.exists
              /\ patched_exe'.data = BufferAfter(clean_exe.data, ret'.raid_index, 3)
              /\ patched_exe'.data # clean_exe'.data ]_vars

\* a workflow went through: the working copy carries the patch and the clean
\* exe still holds the three unpatched sites
C15_Witness ==
    /\ ret.op = "execute_patch_workflow"
    /\ ret.value.stopped = "done"
    /\ clean_exe.exists
    /\ Missing(clean_exe.data) = { }
    /\ patched_exe.exists
    /\ Missing(patched_exe.data) = PatchNames
    /\ verify_patch(patched_exe.data, ret.raid_index, TRUE)

IsU32(n) == n.hi \in 0..65535 /\ n.lo \in 0..65535

C17_NoHardcodedBound ==
    [][ ( /\ ret'.op = "patch_executable"
          /\ IsU32(ret'.raid_index)
          /\ ~ReadFailed(log') )
        => ( /\ ret'.raised \in { "none", "PatchError" }
             /\ Len(patch_set') = 3
             /\ Serialises(SubSeq(patch_set'[1].replacement, 2, 5), ret'.raid_index)
             /\ Serialises(SubSeq(patch_set'[2].replacement, 5, 8), ret'.raid_index)
             /\ ret'.raised = "none" =>
                   ret'.value = patch_executable(disk, PyInt(1), TRUE, "ok", 0).ret.value
             /\ ret'.raised = "PatchError" => WriteLines(log') # << >>
             /\ Succeeded(ret') =>
                   /\ Serialises(SubSeq(disk', ret'.value.offsets.get_raid + 2,
                                         ret'.value.offsets.get_raid + 5), ret'.raid_index)
                   /\ Serialises(SubSeq(disk', ret'.value.offsets.set_raid + 5,
                                         ret'.value.offsets.set_raid + 8), ret'.raid_index) ) ]_vars

\* index 0, below the valid range, patched like any other
C17_Witness ==
    /\ Succeeded(ret)
    /\ ret.raid_index = PyInt(0)
    /\ SubSeq(disk, ret.value.offsets.get_raid + 1, ret.value.offsets.get_raid + 6)
          = << \hB8, 0, 0, 0, 0, \h90 >>

(***************************************************************************)
(* C18.  When the pattern matches at no offset, which includes every       *)
(* pattern longer than the buffer, replace_pattern returns NOT_FOUND (-1)  *)
(* and the buffer keeps its length and every byte.                         *)
(***************************************************************************)
C18_NoMatchFrame ==
    (call.called /\ Occurrences(call.exe_data, Split(call.pattern)) = { }) =>
        /\ call.offset = NOT_FOUND
        /\ call.offset = -1
        /\ call.raised = "none"
        /\ Len(call.out) = Len(call.exe_data)
        /\ \A k \in 1..Len(call.exe_data) : call.out[k] = call.exe_data[k]

\* three wildcards on a buffer of two bytes
C18_Witness ==
    /\ call.called
    /\ call.pattern = Join(<< Wildcard, Wildcard, Wildcard >>)
    /\ call.exe_data = << \hAA, \hFF >>
    /\ call.new_bytes = << 17 >>
    /\ call.offset = NOT_FOUND
    /\ call.out = << \hAA, \hFF >>

(***************************************************************************)
(* C19.  On a match at offset i with i + R <= L, replace_pattern returns i *)
(* and overwrites exactly the positions [i, i + R) with the R replacement  *)
(* bytes, R smaller or larger than the pattern length P alike; the bytes   *)
(* outside [i, i + R) and the length of the buffer stay as they were.      *)
(***************************************************************************)
C19_WriteFrame ==
    LET e == Split(call.pattern)
        B == call.exe_data
        occ == Occurrences(B, e)
        R == Len(call.new_bytes)
    IN  ( /\ call.called
          /\ occ # { }
          /\ Least(occ) + R <= Len(B) )
        => ( /\ call.offset = Least(occ)
             /\ call.raised = "none"
             /\ Len(call.out) = Len(B)
             /\ \A k \in 0..(Len(B) - 1) :
                   call.out[k + 1] = IF k >= call.offset /\ k < call.offset + R
                                     THEN call.new_bytes[k - call.offset + 1]
                                     ELSE B[k + 1] )

\* a replacement of three bytes on a pattern of one element, ending at the
\* end of the buffer
C19_Witness ==
    /\ call.called
    /\ call.pattern = << "f", "f" >>
    /\ call.exe_data = << \h00, \hFF, \hAA, \h00 >>
    /\ call.new_bytes = << 17, 34, 51 >>
    /\ call.offset = 1
    /\ call.out = << \h00, 17, 34, 51 >>

(***************************************************************************)
(* C20.  On a readable file detect_current_patch returns the value decoded *)
(* little-endian from bytes [i + 1, i + 5) at the smallest offset i in     *)
(* [0, L - 6] with B8 at i, 90 at i + 5 and a decoded value in 1..38;      *)
(* windows with a value out of range are passed over and the scan goes on; *)
(* it returns None when there is no such window, which includes every file *)
(* shorter than 6 bytes.                                                   *)
(***************************************************************************)
C20_DetectFirstValid ==
    LET W == { i \in 0..(Len(disk) - 6) : ValidWindowAt(disk, i) }
        expected == IF W = { } THEN None ELSE disk[Least(W) + 2]
    IN  /\ detect_current_patch(disk, TRUE) = expected
        /\ Len(disk) < 6 => detect_current_patch(disk, TRUE) = None
        /\ ret.op = "detect_current_patch" => ret.value \in { expected, None }

\* the window written for raid 300 at the head of the file is passed over,
\* the "mov eax, 7; nop" behind the three sites is returned
C20_Witness ==
    /\ ret.op = "detect_current_patch"
    /\ ret.value = 7
    /\ SubSeq(disk, 1, 6) = << \hB8, \h2C, \h01, 0, 0, \h90 >>
    /\ ValidWindowAt(disk, 27)
    /\ \A i \in 0..26 : ~ValidWindowAt(disk, i)

(***************************************************************************)
(* C21.  verify_patch and detect_current_patch are read-only: whatever the *)
(* file holds and whatever the parameter, the file is byte for byte the    *)
(* same after the call.  On a file it could read, verify_patch returns     *)
(* True exactly when the 6 bytes B8, the parameter's 4 little-endian       *)
(* bytes, 90 stand somewhere in the file.                                  *)
(***************************************************************************)
C21_ReadOnly ==
    [][ ret'.op \in { "verify_patch", "detect_current_patch" } =>
          /\ disk' = disk
          /\ (ret'.op = "verify_patch" /\ log' = << >>) =>
                ( ret'.value <=>
                    \E i \in 0..(Len(disk) - 6) :
                        /\ disk[i + 1] = \hB8
                        /\ Serialises(SubSeq(disk, i + 2, i + 5), ret'.raid_index)
                        /\ disk[i + 6] = \h90 ) ]_vars

\* verify_patch read a file that holds "mov eax, 7; nop" and the sites
\* patched for raid 38, and said no to raid 1
C21_Witness ==
    /\ ret.op = "verify_patch"
    /\ ~ret.value
    /\ log = << >>
    /\ ret.raid_index = PyInt(1)
    /\ ValidWindowAt(disk, 0) /\ disk[2] = 7
    /\ Contains(disk, << \hB8, 38, 0, 0, 0, \h90 >>)

(***************************************************************************)
(* C22.  The order of the patches does not affect the outcome: on every    *)
(* buffer and for every parameter, the three patches applied in any of the *)
(* 6 orders give the same matched and unmatched patches, the same offset   *)
(* for each patch and the same final buffer as the order get_raid,         *)
(* set_raid, raid_status.  Occurrences of two different patterns never     *)
(* overlap, and the bytes a patch writes stay inside the window its own    *)
(* pattern matched.                                                        *)
(***************************************************************************)
C22_OrderIndependent ==
    ret.op = "ApplyPatches" =>
        LET ref == ApplyPatches(Fresh(disk), create_raid_patches(ret.raid_index), 1)
            got == ret.value.results
        IN  /\ got.success = ref.results.success
            /\ DOMAIN got.offsets = DOMAIN ref.results.offsets
            /\ \A name \in DOMAIN got.offsets : got.offsets[name] = ref.results.offsets[name]
            /\ Range(got.errors) = Range(ref.results.errors)
            /\ ret.value.exe_data = ref.exe_data
            /\ \A a, b \in PatchNames :
                  a # b =>
                    \A i \in Occurrences(disk, ElementsOf(a)),
                       j \in Occurrences(disk, ElementsOf(b)) :
                        i + Len(ElementsOf(a)) <= j \/ j + Len(ElementsOf(b)) <= i
            /\ \A k \in 1..Len(patch_set) :
                  Len(patch_set[k].replacement) <= Len(Split(patch_set[k].pattern))

\* raid_status applied first, get_raid last, on a file where the sites come
\* in the other order; the raid bytes are the head of the status pattern
C22_Witness ==
    /\ ret.op = "ApplyPatches"
    /\ patch_set[1].name = "raid_status"
    /\ patch_set[3].name = "get_raid"
    /\ ret.raid_index = from_bytes(SubSeq(BytesOf(status_pattern), 1, 4))
    /\ ret.value.results.success
    /\ ret.value.results.offsets.get_raid < ret.value.results.offsets.raid_status
    /\ log[1] = << "Applying", "raid_status" >>

(***************************************************************************)
(* C23.  The patch workflow patches from a clean source: when              *)
(* execute_patch_workflow goes through for raid N, the patched exe is what *)
(* the same workflow leaves on an installation that has the clean exe and  *)
(* nothing else, whatever the patched exe held before; in particular a     *)
(* workflow for Y that follows a workflow for X leaves the file a single   *)
(* workflow for Y leaves, and a raid the clean exe does not verify for is  *)
(* not verified in it either unless it is N.                               *)
(***************************************************************************)
C23_PatchesFromClean ==
    [][ (ret'.op = "execute_patch_workflow" /\ ret'.value.stopped = "done") =>
          LET single == execute_patch_workflow(
                            [clean_exe |-> clean_exe, patched_exe |-> Absent,
                             shortcuts |-> { }],
                            ret'.raid_index, None,
                            [confirm |-> TRUE, unlink_ok |-> TRUE, c |-> "ok", cn |-> 0,
                             readable |-> TRUE, w |-> "ok", n |-> 0, scan_ok |-> TRUE,
                             kept |-> { }, create_ok |-> TRUE])
          IN  /\ single.ret.value.stopped = "done"
              /\ patched_exe' = single.patched_exe
              /\ \A X \in { PyInt(1), PyInt(38) } \ { ret'.raid_index } :
                    verify_patch(patched_exe'.data, X, TRUE)
                        => verify_patch(clean_exe.data, X, TRUE) ]_vars

\* a workflow for raid 38 went through on an installation patched for raid 1:
\* the shortcut of raid 1 was removed, and the file verifies for 38 only
C23_Witness ==
    /\ ret.op = "execute_patch_workflow"
    /\ ret.value.stopped = "done"
    /\ Small(ret.raid_index) = 38
    /\ \E k \in 1..Len(log) : log[k] = << "info", "Removing old shortcut", 1 >>
    /\ verify_patch(patched_exe.data, PyInt(38), TRUE)
    /\ ~verify_patch(patched_exe.data, PyInt(1), TRUE)
    /\ detect_current_patch(patched_exe.data, TRUE) = 38

(***************************************************************************)
(* C24.  Validity is enforced by the caller.  show_raid_menu returns only  *)
(* None (on q, Q or an interrupt), 'cleanup' (on c, C) or an int in 1..38  *)
(* (on the decimal text of such a number); on every other text it asks     *)
(* again.  Hence every patch workflow, and every patch set a workflow      *)
(* generates, is for a raid index in 1..38.                                *)
(***************************************************************************)
C24_CallerEnforcesRange ==
    LET numbers == { sign \o str(n) : sign \in { << >>, << "+" >> }, n \in 1..38 }
    IN  /\ selection.kind \in { "prompting", "None", "cleanup", "int" }
        /\ selection.kind = "int" =>
              /\ InValidRange(selection.raid)
              /\ selection.choice \in numbers
        /\ selection.kind = "None" =>
              selection.choice \in { << >>, << "q" >>, << "Q" >> }
        /\ selection.kind = "cleanup" => selection.choice \in { << "c" >>, << "C" >> }
        /\ selection.kind = "prompting" =>
              selection.choice \notin numbers \cup { << "q" >>, << "Q" >>, << "c" >>, << "C" >> }
        /\ ret.op = "execute_patch_workflow" => InValidRange(ret.raid_index)
        /\ patch_set # << >> =>
              \E n \in 1..38 : patch_set = create_raid_patches(PyInt(n))

\* a workflow for raid 38 went through, and in the next run the menu asks
\* again after the user typed 39
C24_Witness ==
    /\ ret.op = "execute_patch_workflow"
    /\ ret.value.stopped = "done"
    /\ Small(ret.raid_index) = 38
    /\ patch_set = create_raid_patches(PyInt(38))
    /\ selection.kind = "prompting"
    /\ selection.choice = << "3", "9" >>

(***************************************************************************)
(* C25.  cleanup_all collects failures instead of stopping.  In every      *)
(* cleanup the user chose and confirmed: no shortcut appears; shortcuts_removed is   *)
(* the number of shortcuts that are gone; patched_exe_removed says that    *)
(* the patched exe was there and is gone; a patched exe that is still      *)
(* there and every shortcut that is still there has its entry in errors;   *)
(* and when errors is empty the patched exe and all shortcuts are absent   *)
(* and patched_exe_removed is true exactly when the patched exe existed    *)
(* before the call.                                                        *)
(***************************************************************************)
C25_CleanupCollectsFailures ==
    [][ (selection.kind = "cleanup" /\ ret'.op = "execute_cleanup_workflow"
            /\ ret'.value.confirmed) =>
          LET results == ret'.value.results
              errors == Range(results.errors)
          IN  /\ shortcuts' \subseteq shortcuts
              /\ results.shortcuts_removed = Cardinality(shortcuts \ shortcuts')
              /\ results.patched_exe_removed
                    <=> (patched_exe.exists /\ ~patched_exe'.exists)
              /\ patched_exe'.exists => << "Failed to remove patched exe" >> \in errors
              /\ \A l \in shortcuts' :
                    \/ << "Failed to remove shortcut", l.raid >> \in errors
                    \/ << "Error scanning for shortcuts in game folder" >> \in errors
              /\ results.errors = << >> =>
                    /\ patched_exe' = Absent
                    /\ shortcuts' = { }
                    /\ results.patched_exe_removed <=> patched_exe.exists ]_vars

\* the patched exe could not be removed: the failure is in errors, and the
\* shortcuts were removed all the same
C25_Witness ==
    /\ ret.op = "execute_cleanup_workflow"
    /\ ret.value.confirmed
    /\ ret.value.results.errors = << << "Failed to remove patched exe" >> >>
    /\ ~ret.value.results.patched_exe_removed
    /\ ret.value.results.shortcuts_removed = 1
    /\ patched_exe.exists
    /\ shortcuts = { }

(***************************************************************************)
(* C26.  patch_executable never changes the size of the file: each of the  *)
(* three replacements is no longer than its pattern (6 <= 6, 11 <= 15,     *)
(* 4 <= 6), every write stays inside the matched window, and whatever a    *)
(* call does, the file has afterwards the length it had before.            *)
(***************************************************************************)
C26_NeverChangesSize ==
    [][ ret'.op = "patch_executable" =>
          /\ \A k \in 1..Len(patch_set') :
                Len(patch_set'[k].replacement) <= Len(Split(patch_set'[k].pattern))
          /\ Len(disk') = Len(disk) ]_vars

(***************************************************************************)
(* C27.  Applying is not repeatable on the same file.  A patch_executable  *)
(* call that succeeds on a file with exactly one occurrence of each of the *)
(* three patterns leaves a file in which none of the three occurs; and a   *)
(* call that reads a file in which none of the three occurs, with whatever *)
(* raid index that fits in 4 bytes, returns success = False with the three *)
(* errors and leaves the file as it was.                                   *)
(***************************************************************************)
C27_NotRepeatable ==
    [][ ret'.op = "patch_executable" =>
          /\ ( /\ Succeeded(ret')
               /\ \A name \in PatchNames :
                     Cardinality(Occurrences(disk, ElementsOf(name))) = 1 )
                => Missing(disk') = PatchNames
          /\ ( /\ Missing(disk) = PatchNames
               /\ ~ReadFailed(log')
               /\ FitsIn4Bytes(ret'.raid_index) )
                => /\ Returned(ret')
                   /\ ret'.value.success = FALSE
                   /\ ret'.value.errors = << error_msg("get_raid"), error_msg("set_raid"),
                                             error_msg("raid_status") >>
                   /\ DOMAIN ret'.value.offsets = { }
                   /\ disk' = disk ]_vars

\* the file carries the patch for raid 1 and a call for raid 38 has just
\* failed on it with three errors
C27_Witness ==
    /\ Returned(ret)
    /\ Small(ret.raid_index) = 38
    /\ ~ret.value.success
    /\ Len(ret.value.errors) = 3
    /\ Missing(disk) = PatchNames
    /\ disk = BufferAfter(Body, PyInt(1), 3)

(***************************************************************************)
(* C28.  A failed patch step stops the workflow before the shortcut step.  *)
(* Whenever execute_patch_workflow gets as far as its patch step on a      *)
(* clean exe in which one of the three patterns is missing, it stops at    *)
(* that step: the patched exe is left as an unpatched byte-for-byte copy   *)
(* of the clean exe (whatever it was before, a working patched exe         *)
(* included), and the shortcuts in the game root are the ones that were    *)
(* there, none removed and none created.                                   *)
(***************************************************************************)
C28_FailedPatchStops ==
    [][ ( /\ selection.kind = "int"
          /\ ret'.op = "execute_patch_workflow"
          /\ ret'.value.stopped \in { "patch", "done" }
          /\ Missing(clean_exe.data) # { } )
        => ( /\ ret'.value.stopped = "patch"
             /\ patched_exe' = File(clean_exe.data)
             /\ Missing(patched_exe'.data) = Missing(clean_exe.data)
             /\ shortcuts' = shortcuts
             /\ clean_exe' = clean_exe ) ]_vars

\* the get_raid site is missing in the clean exe: the patched exe that
\* worked for raid 1 is now a copy of the clean exe, and the shortcut for
\* raid 1 is still there
C28_Witness ==
    /\ ret.op = "execute_patch_workflow"
    /\ ret.value.stopped = "patch"
    /\ Small(ret.raid_index) = 38
    /\ Missing(clean_exe.data) = { "get_raid" }
    /\ patched_exe = File(clean_exe.data)
    /\ \E k \in 1..Len(log) :
          log[k] = << "error", "Patching failed - executable not modified" >>
    /\ shortcuts = Installed.shortcuts

(***************************************************************************)
(* C29.  Only one raid is active at a time.  When execute_patch_workflow   *)
(* has completed its patch step for raid N and every old shortcut could be *)
(* removed (no removal and no scan failed), the game root holds at most    *)
(* one raid shortcut, and if there is one it is the shortcut of raid N and *)
(* points at the patched exe: shortcuts of earlier raids do not pile up    *)
(* over a sequence of successful workflows.                                *)
(***************************************************************************)
C29_OneRaidActive ==
    [][ ( /\ selection.kind = "int"
          /\ ret'.op = "execute_patch_workflow"
          /\ ret'.value.stopped = "done"
          /\ \A k \in 1..Len(log') :
                /\ log'[k] # << "warning", "Error scanning for old shortcuts" >>
                /\ \A l \in shortcuts :
                      log'[k] # << "warning", "Could not remove old shortcut", l.raid >> )
        => ( /\ Cardinality(shortcuts') <= 1
             /\ shortcuts' \subseteq
                    { [raid |-> Small(ret'.raid_index), target |-> "patched_exe"] }
             /\ \A l \in shortcuts :
                    \E k \in 1..Len(log') :
                        log'[k] = << "info", "Removing old shortcut", l.raid >> ) ]_vars

\* the workflow for raid 38 removed the shortcut of raid 1 and created its own
C29_Witness ==
    /\ ret.op = "execute_patch_workflow"
    /\ ret.value.stopped = "done"
    /\ Small(ret.raid_index) = 38
    /\ \E k \in 1..Len(log) : log[k] = << "info", "Removing old shortcut", 1 >>
    /\ \A k \in 1..Len(log) :
          log[k] # << "warning", "Could not remove old shortcut", 1 >>
    /\ shortcuts = { [raid |-> 38, target |-> "patched_exe"] }
    /\ verify_patch(patched_exe.data, PyInt(38), TRUE)

(***************************************************************************)
(* C30.  The read-only operations never raise.  Every verify_patch and     *)
(* every detect_current_patch call returns; detect_current_patch returns   *)
(* None when the patched exe does not exist or cannot be read;             *)
(* verify_patch returns False when the file cannot be read or the raid     *)
(* index cannot be written in 4 bytes (the failure is logged); and the     *)
(* file is left as it was.                                                 *)
(***************************************************************************)
C30_ReadOnlyNeverRaise ==
    [][ /\ ret'.op = "verify_patch" =>
              /\ ret'.raised = "none"
              /\ ret'.value \in BOOLEAN
              /\ ~FitsIn4Bytes(ret'.raid_index) =>
                    log' = << << "error", "Verification failed" >> >>
              /\ log' = << << "error", "Verification failed" >> >> =>
                    (ret'.value = FALSE /\ disk' = disk)
        /\ ret'.op = "detect_current_patch" =>
              /\ ret'.raised = "none"
              /\ ( \/ log' = << << "debug", "Patched exe doesn't exist" >> >>
                   \/ log' = << << "error", "Failed to detect current patch" >> >> )
                    => (ret'.value = None /\ disk' = disk) ]_vars

\* verify_patch was asked for raid 2^32 on a file that holds the three
\* sites: the serialisation failed, the call returned False
C30_Witness ==
    /\ ret.op = "verify_patch"
    /\ ret.raid_index = [hi |-> 65536, lo |-> 0]
    /\ ret.raised = "none"
    /\ ret.value = FALSE
    /\ log = << << "error", "Verification failed" >> >>
    /\ Missing(disk) = { }

====
